---- MODULE Spec2Model ----
(***************************************************************************)
(* A model of notebooks/data-exploration.ipynb: the logging setup, the      *)
(* dataset loader loadData, the median-centred boxplot renderer             *)
(* (boxplotTimeSeries, boxPlotTimeSeriesMultiple) and the missingness       *)
(* heat map renderer (missingHeatMap, missingHeatMapMultiple).              *)
(*                                                                          *)
(* Floating point columns are held in fixed point: one unit is 1/Scale.     *)
(* The measurements drawn by Init are whole numbers, so medians (multiples  *)
(* of 1/2) and the 0.025 / 0.975 quantiles (multiples of 1/40) are exact.   *)
(***************************************************************************)
EXTENDS Integers, Sequences, FiniteSets, TLC

VARIABLES
    \* ---- renderers ----
    data,        \* the feature table handed to the renderers (dataSets[0][0])
    pc,          \* position of the running render call
    fn,          \* the entry point that is running
    variables,   \* its list of variable names
    i,           \* loop index of the stacking entry points (enumerate)
    axes,        \* what each subplot of the current figure shows
    plot,        \* intermediate tables and bounds of the last single render
    raised,      \* the exception the call raised, or "none"
    \* ---- loadData ----
    files,       \* the files present under DATA_DIR
    ldPc,        \* position inside loadData
    s,           \* index into names
    dataSetsLoc, \* loadData's local list dataSets
    dataSets,    \* the notebook's global dataSets (line 126), or Unset
    reads,       \* every pd.read_parquet call made so far, in order
    ldRaised,    \* the exception loadData raised, or "none"
    \* ---- logging setup ----
    rootHandlers, \* number of handlers on the root logger (an ancestor)
    handlers,     \* logger.handlers of 'data-exploration-logger'
    logFile,      \* LOG_DIR/data-exploration.log: whether it exists, how many records it holds
    runs,         \* how often the setup cell has run
    emitted,      \* how many records have been logged
    lastStep      \* the last step of the logging model

renderVars == <<data, pc, fn, variables, i, axes, plot, raised>>
loadVars   == <<files, ldPc, s, dataSetsLoc, dataSets, reads, ldRaised>>
logVars    == <<rootHandlers, handlers, logFile, runs, emitted, lastStep>>
vars       == <<renderVars, loadVars, logVars>>

----------------------------------------------------------------------------
(* Bounds of the model *)
MaxRows == 4        \* rows of a one-variable table
MaxVal == 2         \* measurements are 0..MaxVal
MaxHour == 1        \* hour buckets are 0..MaxHour
MaxVars == 2        \* length of a list of variables
MaxRuns == 3        \* executions of the logging cell
MaxEmit == 2        \* records logged
MaxRoot == 1        \* handlers on the root logger

(* Fixed point and the numbers of the source *)
Scale == 40         \* 0.025 = 1/Scale
QLowNum == 1        \* 0.025 * Scale
QHighNum == 39      \* 0.975 * Scale
YFloor == 2         \* 0.05 * Scale
NaN == -1000000     \* a missing cell

----------------------------------------------------------------------------
(* Sequences and tables, held as explicit values *)
\* a sequence given by a rule, as the tuple of its elements
Tuple(q) == q \o <<>>

\* a function given by a rule, as the table of its values
Columns(f) == f @@ <<>>

\* the values of q in ascending order
SortValues(q) == SortSeq(q, LAMBDA a, b : a < b)

\* the elements of q at the positions P, in order
AtPositions(q, P) ==
    LET ps == SelectSeq(Tuple([j \in 1..Len(q) |-> j]), LAMBDA j : j \in P)
    IN  Tuple([k \in 1..Len(ps) |-> q[ps[k]]])

----------------------------------------------------------------------------
(* pandas: missing values, Series arithmetic and comparisons *)
IsNa(x) == x = NaN

Sub(a, b) == IF IsNa(a) \/ IsNa(b) THEN NaN ELSE a - b

Abs(a) == IF IsNa(a) THEN NaN ELSE IF a < 0 THEN -a ELSE a

\* comparisons with a missing operand are False
Ge(a, b) == ~IsNa(a) /\ ~IsNa(b) /\ a >= b

Le(a, b) == ~IsNa(a) /\ ~IsNa(b) /\ a <= b

\* the non-missing values of the rows of hour h, in row order
GroupValues(hours, vals, h) ==
    AtPositions(vals, {j \in 1..Len(vals) : hours[j] = h /\ ~IsNa(vals[j])})

\* variant of Median: the lower middle value of a group of even size
MedianLower(q) ==
    LET t == SortValues(q)
        n == Len(t)
    IN  IF n = 0 THEN NaN ELSE t[(n + 1) \div 2]

\* 'median': missing values are skipped; the mean of the two middle values
Median(q) ==
    LET t == SortValues(q)
        n == Len(t)
    IN  IF n = 0 THEN NaN
        ELSE IF n % 2 = 1 THEN t[(n + 1) \div 2]
        ELSE (t[n \div 2] + t[n \div 2 + 1]) \div 2

\* 'quantile' with linear interpolation at position (n - 1) * qnum / Scale
Quantile(q, qnum) ==
    LET t == SortValues(q)
        n == Len(t)
        pos == (n - 1) * qnum
        idx == pos \div Scale
        frac == pos % Scale
        lo == t[idx + 1]
        hi == IF idx + 2 <= n THEN t[idx + 2] ELSE lo
    IN  IF n = 0 THEN NaN
        ELSE lo + ((hi - lo) * frac) \div Scale

\* variant of GroupKey: the whole column as one group
GroupKeyWhole(f, col, r) ==
    AtPositions(f.cols[col], {j \in 1..Len(f.index) : ~IsNa(f.cols[col][j])})

\* the group of row r under df.groupby('Hour')[col]
GroupKey(f, col, r) == GroupValues(f.cols["Hour"], f.cols[col], f.cols["Hour"][r])

\* df.groupby('Hour')[col].transform('median')
TransformMedian(f, col) ==
    Tuple([r \in 1..Len(f.index) |-> Median(GroupKey(f, col, r))])

\* df.groupby('Hour')[col].transform('quantile', qnum / Scale)
TransformQuantile(f, col, qnum) ==
    Tuple([r \in 1..Len(f.index) |-> Quantile(GroupKey(f, col, r), qnum)])

\* Series.max(): missing values are skipped, NaN when nothing is left
SeriesMax(q) ==
    LET S == {q[j] : j \in {k \in 1..Len(q) : ~IsNa(q[k])}}
    IN  IF S = {} THEN NaN ELSE CHOOSE x \in S : \A y \in S : y <= x

\* np.max((a, b)): a NaN operand propagates
NpMax(a, b) == IF IsNa(a) \/ IsNa(b) THEN NaN ELSE IF a >= b THEN a ELSE b

----------------------------------------------------------------------------
(* DataFrames: an index and named columns; objects live in a heap *)
Project(f, cs) == [index |-> f.index, cols |-> Columns([c \in cs |-> f.cols[c]])]

\* variant of SelectCopy: df = data, a second name for the same object
SelectAlias(h, r, cs) == [heap |-> h, ref |-> r]

\* data[['Hour', variable]].copy(deep=True): a new object
SelectCopy(h, r, cs) == [heap |-> Append(h, Project(h[r], cs)), ref |-> Len(h) + 1]

\* df[c] = series: assignment into the object df names
SetCol(h, r, c, series) ==
    [h EXCEPT ![r] = [index |-> @.index, cols |-> (c :> series) @@ @.cols]]

\* df[mask]: a new frame of the rows whose mask is True, labels kept
FilterFrame(f, mask) ==
    LET P == {r \in 1..Len(f.index) : mask[r]}
    IN  [index |-> AtPositions(f.index, P),
         cols |-> Columns([c \in DOMAIN f.cols |-> AtPositions(f.cols[c], P)])]

----------------------------------------------------------------------------
(* boxplotTimeSeries *)
\* variant of TrimMask: (isna | >= low) & <= high
TrimMaskWrongPrecedence(f, variable) ==
    Tuple([r \in 1..Len(f.index) |->
        (IsNa(f.cols[variable][r]) \/ Ge(f.cols[variable][r], f.cols["quantile_low"][r]))
        /\ Le(f.cols[variable][r], f.cols["quantile_high"][r])])

\* lines 197-198: isna | (>= low) & (<= high), where & binds tighter than |
TrimMask(f, variable) ==
    Tuple([r \in 1..Len(f.index) |->
        IsNa(f.cols[variable][r])
        \/ (Ge(f.cols[variable][r], f.cols["quantile_low"][r])
            /\ Le(f.cols[variable][r], f.cols["quantile_high"][r]))])

\* y_abs_max = np.max((np.abs(df[variable]).max(), 0.05))
YAbsMax(df, variable) ==
    NpMax(SeriesMax(Tuple([r \in 1..Len(df.index) |-> Abs(df.cols[variable][r])])), YFloor)

BoxplotTimeSeries(d, variable) ==
    LET c0 == SelectCopy(<<d>>, 1, {"Hour", variable})
        df == c0.ref
        h0 == c0.heap
        medians == TransformMedian(h0[df], variable)
        h1 == SetCol(h0, df, variable,
                     Tuple([r \in 1..Len(h0[df].index) |-> Sub(h0[df].cols[variable][r], medians[r])]))
        h2 == SetCol(h1, df, "quantile_low", TransformQuantile(h1[df], variable, QLowNum))
        h3 == SetCol(h2, df, "quantile_high", TransformQuantile(h2[df], variable, QHighNum))
        trimmed == FilterFrame(h3[df], TrimMask(h3[df], variable))
        y == YAbsMax(trimmed, variable)
    IN  [data |-> h3[1],
         kind |-> "box",
         variable |-> variable,
         medians |-> medians,
         centered |-> h1[df],
         df |-> trimmed,
         y_abs_max |-> y,
         ylim |-> IF IsNa(y) THEN <<NaN, NaN>> ELSE <<-y, y>>,
         \* Axes.set_ylim rejects NaN limits
         raised |-> IF IsNa(y) THEN "ValueError" ELSE "none"]

----------------------------------------------------------------------------
(* missingHeatMap *)
\* df[variable].isna().astype(int)
MissingColumn(f, variable) ==
    Tuple([r \in 1..Len(f.index) |-> IF IsNa(f.cols[variable][r]) THEN 1 ELSE 0])

HoursOf(f) == {f.cols["Hour"][r] : r \in 1..Len(f.index)}

RECURSIVE SumSeq(_)
SumSeq(q) == IF q = <<>> THEN 0 ELSE q[1] + SumSeq(Tail(q))

\* variant of AggSumCount: 'count' counts the rows whose variable is present
AggCountOfVariable(f, col) ==
    [h \in HoursOf(f) |->
        [sum |-> SumSeq(GroupValues(f.cols["Hour"], f.cols[col], h)),
         count |-> Len(GroupValues(f.cols["Hour"], f.cols[col], h))
                   - SumSeq(GroupValues(f.cols["Hour"], f.cols[col], h))]]

\* .agg(['sum', 'count']) of column col, one row per hour present
AggSumCount(f, col) ==
    [h \in HoursOf(f) |->
        [sum |-> SumSeq(GroupValues(f.cols["Hour"], f.cols[col], h)),
         count |-> Len(GroupValues(f.cols["Hour"], f.cols[col], h))]]

\* variant of PctMissing: the fraction of rows present
PctMissingInverted(grouped) ==
    [h \in DOMAIN grouped |-> [num |-> grouped[h].count - grouped[h].sum, den |-> grouped[h].count]]

\* grouped['sum'] / grouped['count'], kept as a fraction num / den
PctMissing(grouped) ==
    [h \in DOMAIN grouped |-> [num |-> grouped[h].sum, den |-> grouped[h].count]]

MissingHeatMap(d, variable) ==
    LET c0 == SelectCopy(<<d>>, 1, {"Hour", variable})
        df == c0.ref
        h1 == SetCol(c0.heap, df, "missing", MissingColumn(c0.heap[df], variable))
        grouped == AggSumCount(h1[df], "missing")
    IN  [data |-> h1[1],
         kind |-> "heat",
         variable |-> variable,
         df |-> h1[df],
         grouped |-> grouped,
         pct_missing |-> PctMissing(grouped),
         raised |-> "none"]

----------------------------------------------------------------------------
(* boxPlotTimeSeriesMultiple and missingHeatMapMultiple *)
NoPlot == [kind |-> "none"]

Subplot(p) == [kind |-> p.kind, variable |-> p.variable]

\* plt.subplots squeezes a 1 x 1 grid to a single Axes, which axes[i] cannot index
AxesSubscriptable(n) == n > 1

\* fig.subplots_adjust(hspace=0.2, top=1 - 1 / n): top = (n - 1) / n must lie
\* above the bottom of the subplots
AdjustRejected(n) == n - 1 <= 0

\* the renderer the loop body of entry point f calls
Render(f, d, v) ==
    IF f = "boxPlotTimeSeriesMultiple" THEN BoxplotTimeSeries(d, v) ELSE MissingHeatMap(d, v)

----------------------------------------------------------------------------
(* The tables and the variable lists the renderers are called with *)
Hours == 0..MaxHour

Cells == {NaN} \cup {v * Scale : v \in 0..MaxVal}

MakeFrame(n, hs, vs) ==
    [index |-> [k \in 1..n |-> k - 1],
     cols |-> [c \in {"Hour"} \cup DOMAIN vs |-> IF c = "Hour" THEN hs ELSE vs[c]]]

\* rows listed hour by hour
HourSorted(hs) == \A k \in 1..(Len(hs) - 1) : hs[k] <= hs[k + 1]

\* X = [10, 12, 100] at hour 0 and [20, 22] at hour 1
ScenarioX == <<10 * Scale, 12 * Scale, 100 * Scale, 20 * Scale, 22 * Scale>>

ScenarioTable == MakeFrame(5, <<0, 0, 0, 1, 1>>, [c \in {"X"} |-> ScenarioX])

\* the same rows interleaved by hour, beside a variable that is entirely missing
ScenarioWide ==
    MakeFrame(5, <<0, 1, 0, 1, 0>>,
              [c \in {"X", "Y"} |->
                  IF c = "X" THEN <<10 * Scale, 20 * Scale, 12 * Scale, 22 * Scale, 100 * Scale>>
                  ELSE <<NaN, NaN, NaN, NaN, NaN>>])

VariablesOf(d) == DOMAIN d.cols \ {"Hour"}

VariableLists(d) == UNION {[1..k -> VariablesOf(d)] : k \in 1..MaxVars}

----------------------------------------------------------------------------
(* Renderer actions *)
otherThanRender == <<loadVars, logVars>>

Outcome(r) == IF r = "none" THEN "done" ELSE "raised"

\* a call boxplotTimeSeries(ax, data, variable)
CallBoxplotTimeSeries ==
    /\ pc = "idle"
    /\ \E v \in VariablesOf(data) :
          \E p \in {BoxplotTimeSeries(data, v)} :
              /\ data' = p.data
              /\ plot' = p
              /\ variables' = <<v>>
              /\ raised' = p.raised
              /\ axes' = IF p.raised = "none" THEN <<Subplot(p)>> ELSE <<>>
              /\ pc' = Outcome(p.raised)
    /\ fn' = "boxplotTimeSeries"
    /\ UNCHANGED <<i, otherThanRender>>

\* a call missingHeatMap(ax, data, variable)
CallMissingHeatMap ==
    /\ pc = "idle"
    /\ \E v \in VariablesOf(data) :
          \E p \in {MissingHeatMap(data, v)} :
              /\ data' = p.data
              /\ plot' = p
              /\ variables' = <<v>>
              /\ raised' = p.raised
              /\ axes' = IF p.raised = "none" THEN <<Subplot(p)>> ELSE <<>>
              /\ pc' = Outcome(p.raised)
    /\ fn' = "missingHeatMap"
    /\ UNCHANGED <<i, otherThanRender>>

\* boxPlotTimeSeriesMultiple(data, variables): n = len(variables); plt.subplots(nrows=n, ...)
CallBoxPlotTimeSeriesMultiple ==
    /\ pc = "idle"
    /\ \E vs \in VariableLists(data) : variables' = vs
    /\ fn' = "boxPlotTimeSeriesMultiple"
    /\ pc' = "loop"
    /\ UNCHANGED <<data, i, axes, plot, raised, otherThanRender>>

\* missingHeatMapMultiple(data, variables): n = len(variables); plt.subplots(nrows=n, ...)
CallMissingHeatMapMultiple ==
    /\ pc = "idle"
    /\ \E vs \in VariableLists(data) : variables' = vs
    /\ fn' = "missingHeatMapMultiple"
    /\ pc' = "loop"
    /\ UNCHANGED <<data, i, axes, plot, raised, otherThanRender>>

\* one pass of: for i, variable in enumerate(variables): plot = render(axes[i], ...)
LoopBody ==
    /\ pc = "loop"
    /\ i < Len(variables)
    /\ IF ~AxesSubscriptable(Len(variables))
       THEN /\ raised' = "TypeError"
            /\ pc' = "raised"
            /\ UNCHANGED <<data, plot, axes, i>>
       ELSE \E p \in {Render(fn, data, variables[i + 1])} :
                /\ data' = p.data
                /\ plot' = p
                /\ raised' = p.raised
                /\ IF p.raised = "none"
                   THEN /\ axes' = Append(axes, Subplot(p))
                        /\ i' = i + 1
                        /\ pc' = "loop"
                   ELSE /\ pc' = "raised"
                        /\ UNCHANGED <<axes, i>>
    /\ UNCHANGED <<fn, variables, otherThanRender>>

\* after the loop: fig.suptitle(...); fig.subplots_adjust(hspace=0.2, top=1 - 1 / n)
Finish ==
    /\ pc = "loop"
    /\ i = Len(variables)
    /\ raised' = IF AdjustRejected(Len(variables)) THEN "ValueError" ELSE "none"
    /\ pc' = Outcome(raised')
    /\ UNCHANGED <<data, fn, variables, i, axes, plot, otherThanRender>>

\* the call is over: back at the notebook's top level, the table stays
Return ==
    /\ pc \in {"done", "raised"}
    /\ pc' = "idle"
    /\ fn' = "none"
    /\ variables' = <<>>
    /\ i' = 0
    /\ axes' = <<>>
    /\ plot' = NoPlot
    /\ raised' = "none"
    /\ UNCHANGED <<data, otherThanRender>>

NoTable == [index |-> <<>>, cols |-> [c \in {"Hour"} |-> <<>>]]

----------------------------------------------------------------------------
(* loadData *)
Unset == "unset"

names == <<"a", "b", "c">>

\* DATA_DIR/set-{s}.parquet.gzip and DATA_DIR/set-{s}-outcomes.parquet.gzip
featuresPath(n) == [set |-> n, kind |-> "features"]

labelsPath(n) == [set |-> n, kind |-> "outcomes"]

AllFiles == {featuresPath(names[k]) : k \in 1..Len(names)}
            \cup {labelsPath(names[k]) : k \in 1..Len(names)}

\* variant of Missing: an absent file reads as an empty table
MissingIgnored(path, fs) == FALSE

\* pd.read_parquet(path) raises FileNotFoundError when the file is absent

Missing(path, fs) == path \notin fs

ReadParquet(path) == [table |-> path]

otherThanLoad == <<renderVars, logVars>>

\* dataSets = loadData(): names = [...]; dataSets = []
CallLoadData ==
    /\ ldPc = "idle"
    /\ ldPc' = "loop"
    /\ s' = 1
    /\ dataSetsLoc' = <<>>
    /\ UNCHANGED <<files, dataSets, reads, ldRaised, otherThanLoad>>

\* one pass of: for s in names: read the features, read the labels, append the pair
LoadPartition ==
    /\ ldPc = "loop"
    /\ s <= Len(names)
    /\ LET fp == featuresPath(names[s])
           lp == labelsPath(names[s])
       IN  IF Missing(fp, files)
           THEN /\ reads' = Append(reads, fp)
                /\ ldRaised' = "FileNotFoundError"
                /\ ldPc' = "raised"
                /\ UNCHANGED <<s, dataSetsLoc>>
           ELSE IF Missing(lp, files)
           THEN /\ reads' = reads \o <<fp, lp>>
                /\ ldRaised' = "FileNotFoundError"
                /\ ldPc' = "raised"
                /\ UNCHANGED <<s, dataSetsLoc>>
           ELSE /\ reads' = reads \o <<fp, lp>>
                /\ dataSetsLoc' = Append(dataSetsLoc, <<ReadParquet(fp), ReadParquet(lp)>>)
                /\ s' = s + 1
                /\ UNCHANGED <<ldRaised, ldPc>>
    /\ UNCHANGED <<files, dataSets, otherThanLoad>>

\* return dataSets, assigned to the notebook's dataSets
LoadReturn ==
    /\ ldPc = "loop"
    /\ s > Len(names)
    /\ dataSets' = dataSetsLoc
    /\ ldPc' = "returned"
    /\ UNCHANGED <<files, s, dataSetsLoc, reads, ldRaised, otherThanLoad>>

LoadIdle ==
    /\ ldPc = "idle"
    /\ s = 0
    /\ dataSetsLoc = <<>>
    /\ dataSets = Unset
    /\ reads = <<>>
    /\ ldRaised = "none"

----------------------------------------------------------------------------
(* Logging setup *)
\* logging.FileHandler(log_file, mode='w') at DEBUG, logging.StreamHandler() at CRITICAL
fh == [kind |-> "file", mode |-> "w", level |-> "DEBUG"]

ch == [kind |-> "stream", mode |-> "-", level |-> "CRITICAL"]

\* Logger.hasHandlers(): this logger or an ancestor it propagates to has a handler
hasHandlers(hs, root) == Len(hs) > 0 \/ root > 0

CountKind(hs, k) == Cardinality({j \in 1..Len(hs) : hs[j].kind = k})

otherThanLog == <<renderVars, loadVars>>

\* the logging cell, lines 77-109
SetupLogging ==
    /\ runs < MaxRuns
    /\ LET removed == IF hasHandlers(handlers, rootHandlers) THEN <<>> ELSE handlers
       IN  IF ~hasHandlers(removed, rootHandlers)
           THEN /\ logFile' = [exists |-> TRUE, records |-> 0]
                /\ handlers' = removed \o <<fh, ch>>
           ELSE /\ handlers' = removed
                /\ UNCHANGED logFile
    /\ runs' = runs + 1
    /\ lastStep' = "setup"
    /\ UNCHANGED <<rootHandlers, emitted, otherThanLog>>

\* a record logged through the logger: the file handler, at DEBUG, writes every record
Emit ==
    /\ runs > 0
    /\ emitted < MaxEmit
    /\ emitted' = emitted + 1
    /\ logFile' = IF CountKind(handlers, "file") > 0
                  THEN [exists |-> TRUE, records |-> logFile.records + CountKind(handlers, "file")]
                  ELSE logFile
    /\ lastStep' = "emit"
    /\ UNCHANGED <<rootHandlers, handlers, runs, otherThanLog>>

\* the process configures the root logger (logging.basicConfig, a host application)
AddRootHandler ==
    /\ rootHandlers < MaxRoot
    /\ rootHandlers' = rootHandlers + 1
    /\ lastStep' = "root"
    /\ UNCHANGED <<handlers, logFile, runs, emitted, otherThanLog>>

\* a new process: the loggers start without handlers, the file stays on disk
NewProcess ==
    /\ runs > 0
    /\ lastStep # "process"
    /\ rootHandlers' = 0
    /\ handlers' = <<>>
    /\ lastStep' = "process"
    /\ UNCHANGED <<logFile, runs, emitted, otherThanLog>>

LogIdle ==
    /\ rootHandlers = 0
    /\ handlers = <<>>
    /\ logFile = [exists |-> FALSE, records |-> 0]
    /\ runs = 0
    /\ emitted = 0
    /\ lastStep = "init"

----------------------------------------------------------------------------
(* Specifications *)
RenderIdle ==
    /\ pc = "idle"
    /\ fn = "none"
    /\ variables = <<>>
    /\ i = 0
    /\ axes = <<>>
    /\ plot = NoPlot
    /\ raised = "none"

\* one variable, rows listed hour by hour; or the scenario table
Init ==
    /\ \/ \E n \in 1..MaxRows : \E hs \in [1..n -> Hours] : \E xs \in [1..n -> Cells] :
             /\ HourSorted(hs)
             /\ data = MakeFrame(n, hs, [c \in {"X"} |-> xs])
       \/ data = ScenarioTable
    /\ RenderIdle
    /\ files = AllFiles
    /\ LoadIdle
    /\ LogIdle

Next ==
    \/ CallBoxplotTimeSeries
    \/ CallMissingHeatMap
    \/ Return

Spec == Init /\ [][Next]_vars

\* two variables and one row; or one of the scenarios
InitStack ==
    /\ \/ \E hs \in [1..1 -> Hours] : \E vs \in [{"X", "Y"} -> [1..1 -> Cells]] :
             data = MakeFrame(1, hs, vs)
       \/ data \in {ScenarioTable, ScenarioWide}
    /\ RenderIdle
    /\ files = AllFiles
    /\ LoadIdle
    /\ LogIdle

NextStack ==
    \/ CallBoxplotTimeSeries
    \/ CallMissingHeatMap
    \/ CallBoxPlotTimeSeriesMultiple
    \/ CallMissingHeatMapMultiple
    \/ LoopBody
    \/ Finish
    \/ Return

SpecStack == InitStack /\ [][NextStack]_vars

\* loadData against every set of files that may be present under DATA_DIR
InitLoad ==
    /\ files \in SUBSET AllFiles
    /\ LoadIdle
    /\ data = NoTable
    /\ RenderIdle
    /\ LogIdle

NextLoad ==
    \/ CallLoadData
    \/ LoadPartition
    \/ LoadReturn

SpecLoad == InitLoad /\ [][NextLoad]_vars

\* the logging cell, run and re-run; the log file may be left from an earlier process
InitLog ==
    /\ rootHandlers = 0
    /\ handlers = <<>>
    /\ \E e \in BOOLEAN : \E n \in 0..MaxEmit :
          /\ (~e => n = 0)
          /\ logFile = [exists |-> e, records |-> n]
    /\ runs = 0
    /\ emitted = 0
    /\ lastStep = "init"
    /\ files = AllFiles
    /\ LoadIdle
    /\ data = NoTable
    /\ RenderIdle

NextLog ==
    \/ SetupLogging
    \/ Emit
    \/ AddRootHandler
    \/ NewProcess

SpecLog == InitLog /\ [][NextLog]_vars

----------------------------------------------------------------------------
(* Properties *)
Rows(f) == 1..Len(f.index)

Labels(f) == {f.index[k] : k \in Rows(f)}

\* m is the median of the non-empty sequence q, said without sorting: fewer than half
\* of the values lie on either side of m, or exactly half lie on each side and m is
\* midway between the nearest two
IsMedian(m, q) ==
    LET n == Len(q)
        below == {j \in 1..n : q[j] < m}
        above == {j \in 1..n : q[j] > m}
    IN  \/ 2 * Cardinality(below) < n /\ 2 * Cardinality(above) < n
        \/ /\ 2 * Cardinality(below) = n
           /\ 2 * Cardinality(above) = n
           /\ \E a \in below : \E b \in above :
                 /\ \A j \in below : q[j] <= q[a]
                 /\ \A j \in above : q[b] <= q[j]
                 /\ q[a] + q[b] = 2 * m

BoxDone == plot.kind = "box"

HeatDone == plot.kind = "heat"

\* C1: trimming never removes a row whose centered value is missing; it removes a row
\* with a non-missing centered value only when that value is strictly below the 2.5th
\* or strictly above the 97.5th percentile of its hour group; a value equal to a band
\* edge is retained.
C1_TrimmingKeepsMissingAndBand ==
    BoxDone =>
        LET c == plot.centered
            v == plot.variable
        IN  \A r \in Rows(c) :
               LET x == c.cols[v][r]
                   g == GroupValues(c.cols["Hour"], c.cols[v], c.cols["Hour"][r])
                   lo == Quantile(g, QLowNum)
                   hi == Quantile(g, QHighNum)
                   kept == c.index[r] \in Labels(plot.df)
               IN  /\ IsNa(x) => kept
                   /\ (~IsNa(x) /\ ~kept) => (x < lo \/ x > hi)
                   /\ (~IsNa(x) /\ (x = lo \/ x = hi)) => kept

\* a missing row kept, a row removed, and a row on the band edge kept, in one call
C1_Witness ==
    /\ BoxDone
    /\ LET c == plot.centered
           v == plot.variable
       IN  /\ \E r \in Rows(c) : IsNa(c.cols[v][r]) /\ c.index[r] \in Labels(plot.df)
           /\ \E r \in Rows(c) : c.index[r] \notin Labels(plot.df)
           /\ \E r \in Rows(c) :
                 /\ ~IsNa(c.cols[v][r])
                 /\ c.index[r] \in Labels(plot.df)
                 /\ c.cols[v][r] = Quantile(GroupValues(c.cols["Hour"], c.cols[v],
                                                        c.cols["Hour"][r]), QLowNum)

\* C2 as stated: after trimming, the median of the retained non-missing centered values
\* of every hour group is exactly zero.
C2_RetainedMedianZero ==
    BoxDone =>
        \A h \in HoursOf(plot.df) :
           LET g == GroupValues(plot.df.cols["Hour"], plot.df.cols[plot.variable], h)
           IN  Len(g) > 0 => IsMedian(0, g)

\* C2 amended: before trimming, the median of the non-missing centered values of every
\* hour group is exactly zero.
C2_CenteredMedianZero ==
    BoxDone =>
        \A h \in HoursOf(plot.centered) :
           LET g == GroupValues(plot.centered.cols["Hour"],
                                plot.centered.cols[plot.variable], h)
           IN  Len(g) > 0 => IsMedian(0, g)

\* a group of four values that is centered between its two middle values and loses
\* a row to trimming
C2_Witness ==
    /\ BoxDone
    /\ \E h \in HoursOf(plot.centered) :
          LET g == GroupValues(plot.centered.cols["Hour"],
                               plot.centered.cols[plot.variable], h)
          IN  /\ Len(g) = 4
              /\ \A j \in 1..4 : g[j] # 0
              /\ Len(plot.df.index) < Len(plot.centered.index)

\* C3: when every value left after trimming is missing, y_abs_max is the floor 0.05,
\* the y-limits are (-0.05, 0.05) and the call completes without an error.
C3_AllMissingGivesFloor ==
    (BoxDone /\ \A r \in Rows(plot.df) : IsNa(plot.df.cols[plot.variable][r])) =>
        /\ plot.y_abs_max = YFloor
        /\ plot.ylim = <<-YFloor, YFloor>>
        /\ raised = "none"

\* C4: loadData returns the complete list of three pairs or nothing: when a file of
\* some partition is absent the load raises, no list reaches the caller, and no file
\* is read twice.
C4_LoadAllOrNothing ==
    /\ dataSets # Unset =>
          /\ AllFiles \subseteq files
          /\ dataSets = [k \in 1..Len(names) |->
                            <<ReadParquet(featuresPath(names[k])),
                              ReadParquet(labelsPath(names[k]))>>]
    /\ (ldPc \in {"returned", "raised"} /\ ~(AllFiles \subseteq files)) =>
          /\ ldPc = "raised"
          /\ ldRaised = "FileNotFoundError"
          /\ dataSets = Unset
    /\ (ldPc = "loop" /\ s > Len(names)) => AllFiles \subseteq files
    /\ \A a, b \in 1..Len(reads) : a # b => reads[a] # reads[b]
    /\ \A a \in 1..(Len(reads) - 1) : reads[a] \in files

\* partition a was read, a file of a later partition is absent, and the load raised
C4_Witness ==
    /\ ldPc = "raised"
    /\ Len(dataSetsLoc) >= 1
    /\ dataSets = Unset

\* C5: for every hour bucket present in the table, the missing fraction is the number
\* of rows of that hour whose variable is missing over the number of rows of that
\* hour, lies in [0, 1], and its divisor is not zero.
C5_FractionInUnitInterval ==
    HeatDone =>
        /\ DOMAIN plot.pct_missing = HoursOf(data)
        /\ \A h \in HoursOf(data) :
              LET rowsOfHour == {r \in Rows(data) : data.cols["Hour"][r] = h}
                  missing == {r \in rowsOfHour : IsNa(data.cols[plot.variable][r])}
                  p == plot.pct_missing[h]
              IN  /\ p.den # 0
                  /\ 0 <= p.num /\ p.num <= p.den
                  /\ p.num = Cardinality(missing)
                  /\ p.den = Cardinality(rowsOfHour)

\* an hour with some but not all rows missing
C5_Witness ==
    /\ HeatDone
    /\ \E h \in DOMAIN plot.pct_missing :
          0 < plot.pct_missing[h].num /\ plot.pct_missing[h].num < plot.pct_missing[h].den

\* C6: a variable missing in every row has missing fraction exactly 1 in every hour
\* bucket present.
C6_AllMissingIsOne ==
    (HeatDone /\ \A r \in Rows(data) : IsNa(data.cols[plot.variable][r])) =>
        \A h \in HoursOf(data) :
           /\ h \in DOMAIN plot.pct_missing
           /\ plot.pct_missing[h].den > 0
           /\ plot.pct_missing[h].num = plot.pct_missing[h].den

\* a variable missing in every row of a table with two hours
C6_Witness ==
    /\ HeatDone
    /\ \A r \in Rows(data) : IsNa(data.cols[plot.variable][r])
    /\ Cardinality(HoursOf(data)) >= 2
    /\ Len(data.index) >= 3

\* C7: no step of the four entry points changes the table passed in.
C7_InputUnchanged == [][data' = data]_vars

\* a stacked boxplot call that centered and trimmed its copy, after an earlier call
C7_Witness ==
    /\ fn = "boxPlotTimeSeriesMultiple"
    /\ pc = "done"
    /\ Len(axes) = 2
    /\ Len(plot.df.index) < Len(data.index)
    /\ plot.centered.cols[plot.variable] # data.cols[plot.variable]
    /\ DOMAIN data.cols = {"Hour", "X", "Y"}

\* C8: every non-missing observation of hour h is replaced by its value minus the
\* median of the non-missing values of hour h alone; the scenario table gives
\* [-2, 0, 88] at hour 0.
C8_CenteringPerHour ==
    BoxDone =>
        /\ \A r \in Rows(data) :
              LET x == data.cols[plot.variable][r]
                  y == plot.centered.cols[plot.variable][r]
                  g == GroupValues(data.cols["Hour"], data.cols[plot.variable],
                                   data.cols["Hour"][r])
              IN  IF IsNa(x) THEN IsNa(y) ELSE ~IsNa(y) /\ IsMedian(x - y, g)
        /\ data = ScenarioTable =>
              /\ plot.medians = <<12 * Scale, 12 * Scale, 12 * Scale, 21 * Scale, 21 * Scale>>
              /\ plot.centered.cols["X"] = <<-2 * Scale, 0, 88 * Scale, -Scale, Scale>>

\* two hours whose medians differ
C8_Witness ==
    /\ BoxDone
    /\ \E a, b \in Rows(data) :
          /\ ~IsNa(plot.medians[a])
          /\ ~IsNa(plot.medians[b])
          /\ plot.medians[a] # plot.medians[b]
    /\ data # ScenarioTable

\* C9: every run of the logging cell recreates the log file and leaves the logger with
\* exactly one file handler and one console handler.
C9_LogRecreatedEachRun ==
    lastStep = "setup" =>
        /\ logFile = [exists |-> TRUE, records |-> 0]
        /\ CountKind(handlers, "file") = 1
        /\ CountKind(handlers, "stream") = 1

\* C10: for every non-empty list of variables the stacking entry points complete
\* without error with one subplot per variable, in list order.
C10_OneSubplotPerVariable ==
    (fn \in {"boxPlotTimeSeriesMultiple", "missingHeatMapMultiple"}
     /\ pc \in {"done", "raised"}) =>
        /\ raised = "none"
        /\ Len(axes) = Len(variables)
        /\ \A k \in 1..Len(variables) : axes[k].variable = variables[k]

====
